---------------------------- MODULE Spec2Model ----------------------------
(***************************************************************************)
(* Model of lambda_handler.py: a scheduled database backup to an object    *)
(* store followed by the retention passes of clean_up.                     *)
(*                                                                         *)
(* Strings are sequences of one-character strings, so that str.format,     *)
(* str.replace, os.path.split, os.path.splitext, str.split, strftime,      *)
(* strptime and the store's Prefix filter are computed character by        *)
(* character, as the code computes them.                                   *)
(***************************************************************************)
EXTENDS Integers, Sequences, FiniteSets, TLC

VARIABLES
    bucket,   \* s3_bucket: the set of object keys in BUCKET_NAME
    today,    \* the wall clock's date (proleptic Gregorian ordinal, date.toordinal())
    hour,     \* the wall clock's hour of the day (minutes and seconds are 00)
    runs,     \* number of calls of lambda_handler and clean_up so far
    puts,     \* number of objects written by other writers so far
    faulty,   \* number of operations so far in which a fault was injected
    last      \* observation of the last operation (what it did, how it ended)

vars == <<bucket, today, hour, runs, puts, faulty, last>>

---------------------------------------------------------------------------
(* Bounds of the model *)

MaxRuns == 2
MaxPuts == 1
MaxFailAt == 1
MaxFaulty == 1

\* days by which the clock advances between two invocations (0: one hour later)
DayGaps == {0, 6, 7, 42}

\* the years the calendar conversion searches
Years == 2023..2025

---------------------------------------------------------------------------
(* Characters and strings *)

\* the characters used, in code-point order (the store lists keys in UTF-8 binary order)
Chars == <<"-", ".", "/", "0", "1", "2", "3", "4", "5", "6", "7", "8", "9",
           ":", "_", "a", "b", "g", "h", "m", "p", "t", "x", "z">>

Ord(c) == CHOOSE i \in 1..Len(Chars) : Chars[i] = c

Digits == <<"0", "1", "2", "3", "4", "5", "6", "7", "8", "9">>

IsDigit(c) == \E i \in 1..10 : Digits[i] = c

DigitVal(c) == (CHOOSE i \in 1..10 : Digits[i] = c) - 1

\* s < t in code-point order: decided at the first position where they differ
LexLess(s, t) ==
    LET n == IF Len(s) < Len(t) THEN Len(s) ELSE Len(t)
    IN  IF \E i \in 1..n : s[i] # t[i]
        THEN LET i == CHOOSE k \in 1..n : s[k] # t[k] /\ \A j \in 1..(k - 1) : s[j] = t[j]
             IN  Ord(s[i]) < Ord(t[i])
        ELSE Len(s) < Len(t)

StartsWith(s, p) == Len(p) <= Len(s) /\ SubSeq(s, 1, Len(p)) = p

OccursAt(s, old, i) == s[i] = old[1] /\ SubSeq(s, i, i + Len(old) - 1) = old

\* index of the first occurrence of the non-empty string old in s, 0 when there is none
Find(s, old) ==
    LET stop == Len(s) - Len(old) + 1
    IN  IF \E i \in 1..stop : OccursAt(s, old, i)
        THEN CHOOSE i \in 1..stop :
                 OccursAt(s, old, i) /\ \A j \in 1..(i - 1) : ~OccursAt(s, old, j)
        ELSE 0

\* str.replace(old, ''): every non-overlapping occurrence removed, left to right
RECURSIVE Remove(_, _)
Remove(s, old) ==
    LET i == IF old = <<>> THEN 0 ELSE Find(s, old)
    IN  IF i = 0 THEN s
        ELSE SubSeq(s, 1, i - 1) \o Remove(SubSeq(s, i + Len(old), Len(s)), old)

\* index of the last occurrence of the character c in s, 0 when there is none
LastIndex(s, c) ==
    IF \E i \in 1..Len(s) : s[i] = c
    THEN CHOOSE i \in 1..Len(s) : s[i] = c /\ \A j \in (i + 1)..Len(s) : s[j] # c
    ELSE 0

\* str.split(sep) for a one-character separator
RECURSIVE Split(_, _)
Split(s, sep) ==
    LET i == Find(s, <<sep>>)
    IN  IF i = 0 THEN <<s>>
        ELSE <<SubSeq(s, 1, i - 1)>> \o Split(SubSeq(s, i + 1, Len(s)), sep)

RECURSIVE NumVal(_)
NumVal(s) == IF s = <<>> THEN 0 ELSE 10 * NumVal(SubSeq(s, 1, Len(s) - 1)) + DigitVal(s[Len(s)])

AllDigits(s) == \A i \in 1..Len(s) : IsDigit(s[i])

Pad2(n) == <<Digits[(n \div 10) + 1], Digits[(n % 10) + 1]>>

Pad4(n) == <<Digits[(n \div 1000) + 1], Digits[((n \div 100) % 10) + 1]>> \o Pad2(n % 100)

\* os.path.split(p)[1]: what follows the last slash
PathSplitTail(p) == SubSeq(p, LastIndex(p, "/") + 1, Len(p))

\* os.path.splitext(p)[0] for p without a slash: cut at the last dot, unless only dots precede it
SplitextRoot(p) ==
    LET dot == LastIndex(p, ".")
    IN  IF dot > 0 /\ \E i \in 1..(dot - 1) : p[i] # "."
        THEN SubSeq(p, 1, dot - 1)
        ELSE p

---------------------------------------------------------------------------
(* datetime.date *)

IsLeap(y) == y % 4 = 0 /\ (y % 100 # 0 \/ y % 400 = 0)

DaysInMonth(y, m) ==
    IF m = 2 THEN (IF IsLeap(y) THEN 29 ELSE 28)
    ELSE IF m \in {4, 6, 9, 11} THEN 30 ELSE 31

DaysBeforeYear(y) == (y - 1) * 365 + ((y - 1) \div 4) - ((y - 1) \div 100) + ((y - 1) \div 400)

\* days of the year before the first of month m (datetime's _DAYS_BEFORE_MONTH, plus the leap day)
DaysBeforeMonth(y, m) ==
    <<0, 31, 59, 90, 120, 151, 181, 212, 243, 273, 304, 334>>[m]
        + (IF m > 2 /\ IsLeap(y) THEN 1 ELSE 0)

\* date.toordinal()
Ymd2Ord(d) == DaysBeforeYear(d.y) + DaysBeforeMonth(d.y, d.m) + d.d

\* date.fromordinal(n)
Ord2Ymd(n) ==
    LET y == CHOOSE yy \in Years : DaysBeforeYear(yy) < n /\ n <= DaysBeforeYear(yy + 1)
        m == CHOOSE mm \in 1..12 :
                 /\ DaysBeforeYear(y) + DaysBeforeMonth(y, mm) < n
                 /\ n <= DaysBeforeYear(y) + DaysBeforeMonth(y, mm) + DaysInMonth(y, mm)
    IN  [y |-> y, m |-> m, d |-> n - DaysBeforeYear(y) - DaysBeforeMonth(y, m)]

\* date.weekday(): Monday is 0
Weekday(d) == (Ymd2Ord(d) + 6) % 7

\* strftime('%Y-%m-%d')
FormatDay(d) == Pad4(d.y) \o <<"-">> \o Pad2(d.m) \o <<"-">> \o Pad2(d.d)

\* strftime('%Y-%m-')
FormatMonth(d) == Pad4(d.y) \o <<"-">> \o Pad2(d.m) \o <<"-">>

NoDate == [ok |-> FALSE, date |-> [y |-> 0, m |-> 0, d |-> 0]]

\* the date that the fields between the dashes of "%Y-%m-%d" stand for
DateOfFields(parts) ==
    IF /\ Len(parts) = 3
       /\ Len(parts[1]) = 4 /\ AllDigits(parts[1])
       /\ Len(parts[2]) \in 1..2 /\ AllDigits(parts[2])
       /\ Len(parts[3]) \in 1..2 /\ AllDigits(parts[3])
    THEN LET y == NumVal(parts[1])
             m == NumVal(parts[2])
             d == NumVal(parts[3])
         IN  IF y >= 1 /\ m \in 1..12 /\ d >= 1 /\ d <= DaysInMonth(y, m)
             THEN [ok |-> TRUE, date |-> [y |-> y, m |-> m, d |-> d]]
             ELSE NoDate
    ELSE NoDate

\* datetime.strptime(s, "%Y-%m-%d").date(): ok is FALSE where Python raises ValueError
StrptimeDate(s) == DateOfFields(Split(s, "-"))

---------------------------------------------------------------------------
(* Configuration (module globals) *)

TEMP_BASE_DIR == <<"/", "t", "m", "p">>

\* two configured databases on one host; the second name extends the first
DATABASE_LIST == <<[host |-> <<"h">>, name |-> <<"a">>],
                   [host |-> <<"h">>, name |-> <<"a", "b">>]>>

\* the seven weekday symbols, Monday first (transliterated)
DAYS_OF_THE_WEEK == <<"wol", "hwa", "su", "mok", "geum", "to", "il">>

BACKUP_DAYS_OF_THE_WEEK == "il"

\* PATH_TEMPLATE.format(base_dir=..., db_host=..., db_name=..., file=...)
PATH_TEMPLATE(base_dir, db_host, db_name, file) ==
    base_dir \o <<"/">> \o db_host \o <<"/">> \o db_name \o <<"/">> \o file

\* get_now(): the clock formatted as YYYY-MM-DD_HH:MM:SS
get_now(day, hr) ==
    FormatDay(Ord2Ymd(day)) \o <<"_">> \o Pad2(hr) \o <<":", "0", "0", ":", "0", "0">>

---------------------------------------------------------------------------
(* The object store *)

RECURSIVE SortKeys(_)
SortKeys(S) ==
    IF S = {} THEN <<>>
    ELSE LET k == CHOOSE x \in S : \A y \in S \ {x} : LexLess(x, y)
         IN  <<k>> \o SortKeys(S \ {k})

\* s3_bucket.objects.filter(Prefix=prefix): the matching keys in listing order
ObjectsFilter(b, prefix) == SortKeys({k \in b : StartsWith(k, prefix)})

---------------------------------------------------------------------------
(* Execution of one invocation.  A run state st carries the bucket, the    *)
(* log of the store operations made so far, the pending exception ("none"  *)
(* while none was raised) and the number of delete calls made.             *)

NoKey == <<>>

\* what a direct call of clean_up remembers of the operation before it
Summary(r) == [op |-> r.op, now |-> r.now, exc |-> r.exc, deleted |-> r.mid \ r.after]

NoPrior == [op |-> "none", now |-> <<>>, exc |-> "none", deleted |-> {}]

Event(op, tier, db, key) == [op |-> op, tier |-> tier, db |-> db, key |-> key]

Start(b) == [bucket |-> b, log |-> <<>>, exc |-> "none", nDel |-> 0]

Raise(st, exc, ev) == [st EXCEPT !.exc = exc, !.log = Append(@, ev)]

\* the injected store faults: which upload fails (0: none), which delete call
\* fails (0: none)
Faults == {f \in [upload : 0..Len(DATABASE_LIST), delete : 0..MaxFailAt] :
              f.upload = 0 \/ f.delete = 0}

NoFault == [upload |-> 0, delete |-> 0]

\* save_file_to_local: the path of the local dump file
save_file_to_local(db, now) ==
    PATH_TEMPLATE(TEMP_BASE_DIR, db.host, db.name, now \o <<".", "g", "z">>)

\* the body of backup's loop for database i, then the following databases
RECURSIVE backup_from(_, _, _, _)
backup_from(st, i, now, fault) ==
    IF i > Len(DATABASE_LIST) THEN st
    ELSE LET local_path == save_file_to_local(DATABASE_LIST[i], now)
             s3_path == Remove(local_path, TEMP_BASE_DIR)
         IN  IF fault.upload = i
             THEN Raise(st, "upload", Event("upload_failed", 0, i, s3_path))
             ELSE backup_from([st EXCEPT !.bucket = @ \cup {s3_path},
                                         !.log = Append(@, Event("upload", 0, i, s3_path))],
                              i + 1, now, fault)

backup(st, now, fault) == backup_from(st, 1, now, fault)

\* file_object.delete()
delete(st, tier, i, key, fault) ==
    IF fault.delete = st.nDel + 1
    THEN [Raise(st, "delete", Event("delete_failed", tier, i, key)) EXCEPT !.nDel = @ + 1]
    ELSE [st EXCEPT !.bucket = @ \ {key}, !.nDel = @ + 1,
                    !.log = Append(@, Event("delete", tier, i, key))]

\* weeks_loop with the listing counted from 1 (enumerate(file_objects, 1)):
\* no position is 0, so the first listed object is deleted like the others
RECURSIVE weeks_loop_counted_from_one(_, _, _, _, _)
weeks_loop_counted_from_one(st, file_objects, n, i, fault) ==
    IF st.exc # "none" \/ n > Len(file_objects) THEN st
    ELSE weeks_loop_counted_from_one(delete(st, 2, i, file_objects[n], fault),
                                     file_objects, n + 1, i, fault)

\* the loop of delete_keys_last_weeks from position n of the listing
RECURSIVE weeks_loop(_, _, _, _, _)
weeks_loop(st, file_objects, n, i, fault) ==
    IF st.exc # "none" \/ n > Len(file_objects) THEN st
    ELSE IF n - 1 = 0
         THEN weeks_loop([st EXCEPT !.log = Append(@, Event("keep", 2, i, file_objects[n]))],
                         file_objects, n + 1, i, fault)
         ELSE weeks_loop(delete(st, 2, i, file_objects[n], fault), file_objects, n + 1, i, fault)

\* a pass that ran to its end returns True; one that raised hands the exception on
Return(st, tier, i) ==
    IF st.exc # "none" THEN st
    ELSE [st EXCEPT !.log = Append(@, Event("return", tier, i, NoKey))]

\* delete_keys_last_weeks with the prefix cut after the database name: the
\* listing then also holds the keys of databases whose name starts the same
delete_keys_last_weeks_short_prefix(st, filename_prefix, i, fault) ==
    LET db == DATABASE_LIST[i]
        prefix == <<"/">> \o db.host \o <<"/">> \o db.name
    IN  Return(weeks_loop(st, ObjectsFilter(st.bucket, prefix), 1, i, fault), 2, i)

delete_keys_last_weeks(st, filename_prefix, i, fault) ==
    LET db == DATABASE_LIST[i]
        prefix == PATH_TEMPLATE(<<>>, db.host, db.name, filename_prefix)
    IN  Return(weeks_loop(st, ObjectsFilter(st.bucket, prefix), 1, i, fault), 2, i)

\* the date of a key as delete_keys_last_months parses it
KeyDate(key) ==
    LET filename_with_extension == PathSplitTail(key)
        filename == SplitextRoot(filename_with_extension)
        parts == Split(filename, "_")
    IN  IF Len(parts) # 2 THEN NoDate ELSE StrptimeDate(parts[1])

\* months_loop that leaves the loop after its first delete (a return True
\* indented into the loop body)
RECURSIVE months_loop_return_in_loop(_, _, _, _, _, _)
months_loop_return_in_loop(st, file_objects, n, i, day_of_the_week, fault) ==
    IF st.exc # "none" \/ n > Len(file_objects) THEN st
    ELSE LET key == file_objects[n]
             parsed == KeyDate(key)
         IN  IF ~parsed.ok
             THEN Raise(st, "ValueError", Event("parse_failed", 3, i, key))
             ELSE IF DAYS_OF_THE_WEEK[Weekday(parsed.date) + 1] = day_of_the_week
                  THEN months_loop_return_in_loop(
                           [st EXCEPT !.log = Append(@, Event("keep", 3, i, key))],
                           file_objects, n + 1, i, day_of_the_week, fault)
                  ELSE delete(st, 3, i, key, fault)

\* the loop of delete_keys_last_months from position n of the listing
RECURSIVE months_loop(_, _, _, _, _, _)
months_loop(st, file_objects, n, i, day_of_the_week, fault) ==
    IF st.exc # "none" \/ n > Len(file_objects) THEN st
    ELSE LET key == file_objects[n]
             parsed == KeyDate(key)
         IN  IF ~parsed.ok
             THEN Raise(st, "ValueError", Event("parse_failed", 3, i, key))
             ELSE IF DAYS_OF_THE_WEEK[Weekday(parsed.date) + 1] = day_of_the_week
                  THEN months_loop([st EXCEPT !.log = Append(@, Event("keep", 3, i, key))],
                                   file_objects, n + 1, i, day_of_the_week, fault)
                  ELSE months_loop(delete(st, 3, i, key, fault),
                                   file_objects, n + 1, i, day_of_the_week, fault)

delete_keys_last_months(st, filename_prefix, i, fault) ==
    LET db == DATABASE_LIST[i]
        prefix == PATH_TEMPLATE(<<>>, db.host, db.name, filename_prefix)
    IN  Return(months_loop(st, ObjectsFilter(st.bucket, prefix), 1, i,
                           BACKUP_DAYS_OF_THE_WEEK, fault), 3, i)

\* the date part of now, as strptime(now, '%Y-%m-%d_%H:%M:%S').date() reads it
now_object(now) == StrptimeDate(Split(now, "_")[1]).date

weeks_prefix(now) == FormatDay(Ord2Ymd(Ymd2Ord(now_object(now)) - 7))

month_prefix(now) == FormatMonth(Ord2Ymd(Ymd2Ord(now_object(now)) - 28))

\* the body of clean_up's loop for database i, then the following databases
RECURSIVE clean_up_from(_, _, _, _)
clean_up_from(st, i, now, fault) ==
    IF st.exc # "none" \/ i > Len(DATABASE_LIST) THEN st
    ELSE LET afterWeeks == delete_keys_last_weeks(st, weeks_prefix(now), i, fault)
             afterMonths == delete_keys_last_months(afterWeeks, month_prefix(now), i, fault)
         IN  clean_up_from(afterMonths, i + 1, now, fault)

clean_up(st, now, fault) == clean_up_from(st, 1, now, fault)

\* the try block of lambda_handler: backup(now), then clean_up(now); a run
\* state that carries an exception passes through the calls that follow
try_block(b, now, fault) ==
    LET is_uploaded == backup(Start(b), now, fault)
        is_cleaned == clean_up(is_uploaded, now, fault)
    IN  [mid |-> is_uploaded.bucket, end |-> is_cleaned]

\* lambda_handler without the raise that ends its except clause: after
\* error_report returned, the invocation falls through to the success status
lambda_handler_without_raise(b, now, try, report_fails) ==
    [op      |-> "lambda_handler",
     now     |-> now,
     before  |-> b,
     mid     |-> try.mid,
     after   |-> try.end.bucket,
     log     |-> try.end.log,
     exc     |-> try.end.exc,
     reports |-> IF try.end.exc # "none"
                 THEN <<[now |-> now, exc |-> try.end.exc]>> ELSE <<>>,
     result  |-> IF try.end.exc # "none" /\ report_fails THEN "raised URLError"
                 ELSE "returned 200",
     prior   |-> NoPrior]

\* lambda_handler, given how its try block went: what the invocation leaves
\* behind.  report_fails tells whether error_report, when called, raises
\* instead of returning
lambda_handler(b, now, try, report_fails) ==
    [op      |-> "lambda_handler",
     now     |-> now,
     before  |-> b,
     mid     |-> try.mid,
     after   |-> try.end.bucket,
     log     |-> try.end.log,
     exc     |-> try.end.exc,
     reports |-> IF try.end.exc # "none"
                 THEN <<[now |-> now, exc |-> try.end.exc]>> ELSE <<>>,
     result  |-> IF try.end.exc = "none" THEN "returned 200"
                 ELSE IF report_fails THEN "raised URLError"
                 ELSE "raised exc",
     prior   |-> NoPrior]

\* a direct call of clean_up(now), given how it went: what it leaves behind
clean_up_call(b, now, is_cleaned, prior) ==
    [op      |-> "clean_up",
     now     |-> now,
     before  |-> b,
     mid     |-> b,
     after   |-> is_cleaned.bucket,
     log     |-> is_cleaned.log,
     exc     |-> is_cleaned.exc,
     reports |-> <<>>,
     result  |-> IF is_cleaned.exc = "none" THEN "returned True" ELSE "raised exc",
     prior   |-> prior]

---------------------------------------------------------------------------
(* The state machine *)

StartDay == Ymd2Ord([y |-> 2024, m |-> 1, d |-> 22])

Idle(op, b) ==
    [op |-> op, now |-> <<>>, before |-> b, mid |-> b, after |-> b, log |-> <<>>,
     exc |-> "none", reports |-> <<>>, result |-> "none", prior |-> NoPrior]

Init ==
    /\ bucket = {}
    /\ today = StartDay
    /\ hour = 0
    /\ runs = 0
    /\ puts = 0
    /\ faulty = 0
    /\ last = Idle("init", {})

Injected(exc) == IF exc \in {"upload", "delete"} THEN 1 ELSE 0

\* the faults that can strike a run whose fault-free execution makes nDel
\* delete calls: a delete call that is never made cannot fail
Effective(nDel) ==
    {f \in Faults : f.delete <= nDel /\ (f # NoFault => faulty < MaxFaulty)}

\* the scheduler invokes lambda_handler; the clock has advanced by gap days
\* (by an hour when gap is 0) since the last invocation
Handled(now, try) ==
    /\ bucket' = try.end.bucket
    /\ faulty' = faulty + Injected(try.end.exc)
    /\ \E report_fails \in (IF try.end.exc = "none" THEN {FALSE} ELSE BOOLEAN) :
           last' = lambda_handler(bucket, now, try, report_fails)

\* smooth is the try block's run when the store does not fail
Invoked(now, smooth) ==
    \E fault \in Effective(smooth.end.nDel) :
        Handled(now, IF fault = NoFault THEN smooth ELSE try_block(bucket, now, fault))

LambdaHandler(gap) ==
    /\ runs < MaxRuns
    /\ gap = 0 => hour < 23
    /\ LET day == today + gap
           hr == IF gap = 0 THEN hour + 1 ELSE 0
           now == get_now(day, hr)
       IN  /\ today' = day
           /\ hour' = hr
           /\ Invoked(now, try_block(bucket, now, NoFault))
    /\ runs' = runs + 1
    /\ UNCHANGED puts

\* clean_up(now) called on its own at the clock's present time
Cleaned(now, is_cleaned) ==
    /\ bucket' = is_cleaned.bucket
    /\ faulty' = faulty + Injected(is_cleaned.exc)
    /\ last' = clean_up_call(bucket, now, is_cleaned, Summary(last))

\* smooth is clean_up's run when the store does not fail
Called(now, smooth) ==
    \E fault \in {f \in Effective(smooth.nDel) : f.upload = 0} :
        Cleaned(now, IF fault = NoFault THEN smooth ELSE clean_up(Start(bucket), now, fault))

CleanUp ==
    /\ runs < MaxRuns
    /\ Called(get_now(today, hour), clean_up(Start(bucket), get_now(today, hour), NoFault))
    /\ runs' = runs + 1
    /\ UNCHANGED <<today, hour, puts>>

\* objects other writers may leave in the bucket: a file without a timestamp
\* and a hand-made dump beside the first database's dumps, and a dump of a
\* database that is not configured
ForeignKeys ==
    LET d == Ord2Ymd(StartDay)
        late == <<"_", "2", "3", ":", "0", "0", ":", "0", "0", ".", "g", "z">>
    IN  { PATH_TEMPLATE(<<>>, <<"h">>, <<"a">>, FormatMonth(d) \o <<"x", ".", "g", "z">>),
          PATH_TEMPLATE(<<>>, <<"h">>, <<"a">>, FormatDay(d) \o late),
          PATH_TEMPLATE(<<>>, <<"h">>, <<"z">>, FormatDay(d) \o late) }

ExternalPut(key) ==
    /\ puts < MaxPuts
    /\ key \notin bucket
    /\ bucket' = bucket \cup {key}
    /\ puts' = puts + 1
    /\ last' = Idle("put", bucket')
    /\ UNCHANGED <<today, hour, runs, faulty>>

Next ==
    \/ \E gap \in DayGaps : LambdaHandler(gap)
    \/ CleanUp
    \/ \E key \in ForeignKeys : ExternalPut(key)

Spec == Init /\ [][Next]_vars

---------------------------------------------------------------------------
(* Vocabulary of the properties: read off the observation of the last      *)
(* operation.                                                              *)

Events == {last.log[n] : n \in 1..Len(last.log)}

Groups == 1..Len(DATABASE_LIST)

\* the path under which database i keeps its dumps
GroupPath(i) == PATH_TEMPLATE(<<>>, DATABASE_LIST[i].host, DATABASE_LIST[i].name, <<>>)

InGroup(k, i) == StartsWith(k, GroupPath(i))

\* an artifact: an object of a configured database whose key carries a date
IsArtifact(k) == KeyDate(k).ok /\ \E i \in Groups : InGroup(k, i)

CreatedOn(k) == Ymd2Ord(KeyDate(k).date)

NowDay == Ymd2Ord(now_object(last.now))

Age(k) == NowDay - CreatedOn(k)

Designated(k) == DAYS_OF_THE_WEEK[Weekday(KeyDate(k).date) + 1] = BACKUP_DAYS_OF_THE_WEEK

\* the objects of artifact k's database and day, in listing order, in bucket b
DayListing(k, b) ==
    LET i == CHOOSE g \in Groups : InGroup(k, g)
    IN  ObjectsFilter(b, GroupPath(i) \o FormatDay(KeyDate(k).date))

\* clean_up was entered: called directly, or by lambda_handler after backup returned
CleanUpEntered ==
    \/ last.op = "clean_up"
    \/ last.op = "lambda_handler" /\ \A e \in Events : e.op # "upload_failed"

CleanUpCompleted == CleanUpEntered /\ last.exc = "none"

\* the keys on which delete() was called
Attempted == {e.key : e \in {x \in Events : x.op \in {"delete", "delete_failed"}}}

\* the keys a fault-free clean_up(now) deletes from the bucket it was given
WouldDelete == last.mid \ clean_up(Start(last.mid), last.now, NoFault).bucket

Failures == {"upload_failed", "delete_failed", "parse_failed"}

---------------------------------------------------------------------------
(* The claims *)

\* C1: clean_up(now) never deletes an artifact of a configured database
\* created less than 7 days before now's date.
C1_RecentRetained ==
    CleanUpEntered =>
        \A k \in last.mid : (IsArtifact(k) /\ Age(k) < 7) => k \in last.after

\* C2: after clean_up(now) completes, of every day in the mid window (7 to
\* 34 days old) that had artifacts, exactly the first listed one survives.
C2_OnePerDaySurvives ==
    CleanUpCompleted =>
        \A k \in last.mid :
            (IsArtifact(k) /\ Age(k) >= 7 /\ Age(k) < 35) =>
                {x \in last.after : x \in {DayListing(k, last.mid)[n] :
                                              n \in 1..Len(DayListing(k, last.mid))}}
                    = {DayListing(k, last.mid)[1]}

\* C3: after clean_up(now) completes, an artifact older than the mid window
\* (35 days or more) is still in the store iff it was created on the
\* designated weekday.
C3_OldSurviveIffDesignated ==
    CleanUpCompleted =>
        \A k \in last.mid :
            (IsArtifact(k) /\ Age(k) >= 35) => (k \in last.after <=> Designated(k))

\* C4: a listed object whose key carries no valid date is neither deleted
\* nor makes clean_up raise.
C4_FailOpen ==
    CleanUpEntered =>
        /\ last.exc # "ValueError"
        /\ \A k \in last.mid : ~KeyDate(k).ok => k \in last.after

\* C5: when one delete fails, every other key clean_up would have deleted
\* is still attempted, and the run ends in failure.
C5_BestEffortDeletes ==
    (CleanUpEntered /\ last.exc = "delete") =>
        /\ WouldDelete \subseteq Attempted
        /\ last.result # "returned 200" /\ last.result # "returned True"

\* C6: lambda_handler returns the success status only when every database
\* was uploaded and both passes returned for every database; when a step
\* raises, that step is the last thing done, error_report is called exactly
\* once with now and the exception, and the invocation ends by raising.
C6_InvocationOutcome ==
    last.op = "lambda_handler" =>
        /\ last.result \in {"returned 200", "raised exc", "raised URLError"}
        /\ last.result = "returned 200" =>
               /\ last.exc = "none"
               /\ last.reports = <<>>
               /\ \A e \in Events : e.op \notin Failures
               /\ \A i \in Groups :
                      /\ \E e \in Events : e.op = "upload" /\ e.db = i
                      /\ \E e \in Events : e.op = "return" /\ e.tier = 2 /\ e.db = i
                      /\ \E e \in Events : e.op = "return" /\ e.tier = 3 /\ e.db = i
        /\ last.exc # "none" =>
               /\ last.result \in {"raised exc", "raised URLError"}
               /\ last.reports = <<[now |-> last.now, exc |-> last.exc]>>
               /\ last.log # <<>>
               /\ last.log[Len(last.log)].op \in Failures
               /\ \A n \in 1..(Len(last.log) - 1) :
                      /\ last.log[n].op \notin Failures
                      /\ last.log[n].tier = last.log[Len(last.log)].tier
                             => last.log[n].db <= last.log[Len(last.log)].db
               /\ last.exc = "upload" => \A e \in Events : e.tier = 0

\* an invocation that raised while a later database was still to be processed
C6_Witness ==
    /\ last.op = "lambda_handler"
    /\ last.exc # "none"
    /\ last.result = "raised exc"
    /\ last.log[Len(last.log)].db < Len(DATABASE_LIST)
    /\ Len(last.reports) = 1

C8_TiersDisjoint ==
    CleanUpEntered =>
        \A e2 \in Events, e3 \in Events :
            ~(e2.tier = 2 /\ e3.tier = 3 /\ e2.key # NoKey /\ e2.key = e3.key)

\* C9: the passes run for one database only evaluate and delete keys under
\* that database's own path; objects of databases that are not configured
\* are left in the store.
C9_GroupIsolation ==
    CleanUpEntered =>
        /\ \A e \in Events : (e.tier \in {2, 3} /\ e.key # NoKey) => InGroup(e.key, e.db)
        /\ \A k \in last.mid : (\A i \in Groups : ~InGroup(k, i)) => k \in last.after

\* a pass of the first database deleted a key while the second database and
\* a database that is not configured had objects in the store
C9_Witness ==
    /\ CleanUpEntered
    /\ \E e \in Events : e.op = "delete" /\ e.db = 1
    /\ \E k \in last.mid : InGroup(k, 2)
    /\ \E k \in last.after : \A i \in Groups : ~InGroup(k, i)

\* C10: no operation deletes the first-listed artifact of a date that falls
\* on the designated weekday; the tier-3 pass deletes no designated-weekday
\* artifact, and the tier-2 pass deletes only objects listed after the
\* first one for the day 7 days before now.
C10_WeeklyArchiveKept ==
    /\ \A k \in last.before :
           (IsArtifact(k) /\ Designated(k) /\ DayListing(k, last.before)[1] = k)
               => k \in last.after
    /\ CleanUpEntered =>
           \A e \in Events :
               e.op \in {"delete", "delete_failed"} =>
                   /\ e.tier = 3 => ~Designated(e.key)
                   /\ e.tier = 2 =>
                          LET listing == ObjectsFilter(last.mid,
                                             GroupPath(e.db) \o weeks_prefix(last.now))
                          IN  \E n \in 2..Len(listing) : listing[n] = e.key

\* both passes evaluated an artifact of the designated weekday and kept it
C10_Witness ==
    /\ CleanUpEntered
    /\ \E e \in Events : e.op = "keep" /\ e.tier = 2 /\ Designated(e.key)
    /\ \E e \in Events : e.op = "keep" /\ e.tier = 3 /\ Designated(e.key)
    /\ \A e \in Events : e.op = "keep" => e.key \in last.after

=============================================================================
